---- MODULE Spec2Model ----
(***************************************************************************)
(* A model of src/src/lib.rs: the client (Client::new / rpc / join with    *)
(* its reader and receiver threads) talking over one TCP connection to the *)
(* server's handle_conn loop, plus the environment the code is exposed to  *)
(* (transport failures, a vanishing or misbehaving peer, read timeouts).   *)
(***************************************************************************)
EXTENDS Integers, Sequences, FiniteSets, TLC

\* Number of caller threads sharing one Client (test_concurrent spawns 10).
NCallers == 2
\* Cap on the number of rpc calls issued in one run (next_id is a u64).
MaxCalls == 2
\* Cap on the number of transport and peer failures in one run.
MaxFaults == 1
\* Cap on the number of connections the listener yields in one run.
MaxConns == 3

Callers == 1..NCallers
Ids == 0..(MaxCalls - 1)
Conns == 1..MaxConns

VARIABLES
    handler,        \* 0: test::Server; n > 0: test::BarrierServer::new(n)
    next_id,        \* SyncedClientState.next_id
    lock,           \* owner of Client.synced_state: 0 free, c a caller, -1 join
    poisoned,       \* the Mutex is poisoned (a holder panicked)
    pc,             \* pc[c]: where caller thread c is inside Client::rpc
    cur,            \* cur[c]: the id allocated by caller c's current call
    result,         \* result[id]: what the call that allocated id returned
    chan,           \* chan[id]: buffer of the per-call channel() of call id
    rxAlive,        \* calls whose Receiver end (rx) has not been dropped
    rcvPc,          \* receiver thread: recv / handling / ok / err / panicked
    rcvMsg,         \* the ReceiverMessage the receiver is matching on
    ready_handles,  \* receiver's HashMap<u64, Handle>: id -> sender
    rdPc,           \* reader thread: read / sending / exited / panicked
    rdPkt,          \* the packet the reader is forwarding
    rdErr,          \* why the reader panicked: none / decode / io / send
    received,       \* history: packets decoded by the reader, in order
    c2s,            \* bytes in flight client -> server, as packets
    s2c,            \* bytes in flight server -> client, as packets
    sent,           \* history: packets the client wrote, in order
    wire,           \* history: the pieces written to the write half, in order
    clientShut,     \* stream.shutdown(Both) has been called by join
    joinPc,         \* Client::join: none / joining / ok / err / panicked
    joinedReader,   \* join has joined the reader thread
    srvPc,          \* handle_conn: read / serve / barrier / write / ok / err / closed
    srvId,          \* id of the request handle_conn is serving
    srvReply,       \* the reply of f.serve for that request
    srvEnd,         \* why handle_conn returned: none / shutdown / eof / decode / handler / io
    counter,        \* test::Server.counter
    arrived,        \* threads waiting at BarrierServer.barrier
    served,         \* history: ids of the requests passed to f.serve
    replied,        \* history: reply packets written by handle_conn
    faults,         \* number of transport and peer failures so far
    acceptPc,       \* serve's accept loop: accepting / returned
    acceptRet,      \* the Error serve returned: none / io
    listenerErr,    \* listener.incoming() has yielded an Err
    workers         \* workers[k]: the thread spawned for connection k:
                    \* none / running / ok / err / panicked

vars == <<handler, next_id, lock, poisoned, pc, cur, result, chan, rxAlive,
          rcvPc, rcvMsg, ready_handles, rdPc, rdPkt, rdErr, received,
          c2s, s2c, sent, wire, clientShut, joinPc, joinedReader,
          srvPc, srvId, srvReply, srvEnd, counter, arrived, served, replied,
          faults, acceptPc, acceptRet, listenerErr, workers>>

acceptVars == <<acceptPc, acceptRet, listenerErr, workers>>
clientVars == <<next_id, lock, poisoned, pc, cur, result, rxAlive>>
rcvVars == <<rcvPc, rcvMsg, ready_handles, chan>>
rdVars == <<rdPc, rdPkt, rdErr, received>>
joinVars == <<joinPc, joinedReader, clientShut>>
srvVars == <<srvPc, srvId, srvReply, srvEnd, counter, arrived, served, replied>>

----------------------------------------------------------------------------
\* enum Packet<T> { Message(u64, T), Shutdown }; "Garbage" stands for bytes
\* that are no packet encoding.
Message(id, body) == [type |-> "Message", id |-> id, body |-> body]
Shutdown == [type |-> "Shutdown", id |-> 0, body |-> 0]
Garbage == [type |-> "Garbage", id |-> 0, body |-> 0]

\* to_writer writes a packet's encoding to the TcpStream piece by piece:
\* Piece(p, 1) is the first part of p's bytes, Piece(p, 2) the rest.
Piece(p, part) == [type |-> p.type, id |-> p.id, part |-> part]

\* enum ReceiverMessage { Handle(Handle), Packet(Packet), Shutdown }
HandleMsg(id, sender) == [kind |-> "Handle", id |-> id, sender |-> sender, pkt |-> Shutdown]
PacketMsg(p) == [kind |-> "Packet", id |-> 0, sender |-> 0, pkt |-> p]
NoMsg == [kind |-> "None", id |-> 0, sender |-> 0, pkt |-> Shutdown]

\* Result<Reply> of one rpc call; kind "none" while it has not returned.
Outcome(kind, val) == [kind |-> kind, val |-> val]
NoOutcome == Outcome("none", 0)

\* HashMap::new(), insert and remove.
EmptyMap == [k \in {} |-> 0]
\* An insert that stores nothing.
MapInsertDrops(m, k, v) == m
MapInsert(m, k, v) == [x \in DOMAIN m \cup {k} |-> IF x = k THEN v ELSE m[x]]
\* A lookup that leaves the entry in the map (get instead of remove).
MapRemoveKeeps(m, k) == m
MapRemove(m, k) == [x \in DOMAIN m \ {k} |-> m[x]]

Terminated(p) == p \in {"ok", "err", "panicked", "exited", "closed"}

\* The Client value has been consumed by join (and dropped when join ended).
ClientDropped == joinPc \in {"ok", "err", "panicked"}

\* The Sender half of channel id is alive while its Handle is in flight to,
\* or stored by, the receiver (or still held by the caller creating it).
SenderAlive(id) ==
    \/ \E c \in Callers : pc[c] = "send_handle" /\ cur[c] = id
    \/ rcvMsg.kind = "Handle" /\ rcvMsg.sender = id
    \/ \E k \in DOMAIN ready_handles : ready_handles[k] = id

\* End of input on the client's read half: the server's socket is closed,
\* or the client shut its own socket down.
ClientReadEof == Terminated(srvPc) \/ clientShut

\* End of input on the server's read half: the client shut down, or every
\* clone of the client's TcpStream has been dropped.
ServerReadEof == clientShut \/ (ClientDropped /\ Terminated(rdPc))

Init ==
    /\ handler \in 0..NCallers
    /\ next_id = 0
    /\ lock = 0
    /\ poisoned = FALSE
    /\ pc = [c \in Callers |-> "idle"]
    /\ cur = [c \in Callers |-> 0]
    /\ result = [i \in Ids |-> NoOutcome]
    /\ chan = [i \in Ids |-> <<>>]
    /\ rxAlive = {}
    /\ rcvPc = "recv"
    /\ rcvMsg = NoMsg
    /\ ready_handles = EmptyMap
    /\ rdPc = "read"
    /\ rdPkt = Shutdown
    /\ rdErr = "none"
    /\ received = <<>>
    /\ c2s = <<>>
    /\ s2c = <<>>
    /\ sent = <<>>
    /\ wire = <<>>
    /\ clientShut = FALSE
    /\ joinPc = "none"
    /\ joinedReader = FALSE
    /\ srvPc = "read"
    /\ srvId = 0
    /\ srvReply = 0
    /\ srvEnd = "none"
    /\ counter = 0
    /\ arrived = 0
    /\ served = <<>>
    /\ replied = <<>>
    /\ faults = 0
    /\ acceptPc = "accepting"
    /\ acceptRet = "none"
    /\ listenerErr = FALSE
    /\ workers = [k \in Conns |-> "none"]

----------------------------------------------------------------------------
(* Client::rpc, lines 203-216.  The MutexGuard `state` lives until the      *)
(* function returns, so every step below up to the return holds the lock.  *)

\* A lock that anyone can take while it is held.
LockFreeAlways(l) == TRUE
\* self.synced_state.lock(): the Mutex is taken only while nobody holds it.
LockFree(l) == l = 0

\* A counter that skips an id.
incrementSkips(id) == id + 2
\* fn increment(cur_id): returns the current id; the counter moves on by one.
increment(id) == id + 1

\* let (tx, rx) = channel(); lock().unwrap(); let id = increment(&mut next_id)
RpcLock(c) ==
    /\ pc[c] = "idle"
    /\ joinPc = "none"
    /\ next_id < MaxCalls
    /\ LockFree(lock)
    /\ IF poisoned
       THEN /\ pc' = [pc EXCEPT ![c] = "panicked"]
            /\ UNCHANGED <<next_id, lock, cur, rxAlive>>
       ELSE /\ lock' = c
            /\ cur' = [cur EXCEPT ![c] = next_id]
            /\ next_id' = increment(next_id)
            /\ rxAlive' = rxAlive \cup {next_id}
            /\ pc' = [pc EXCEPT ![c] = "send_handle"]
    /\ UNCHANGED <<acceptVars, wire, handler, poisoned, result, rcvVars, rdVars, c2s, s2c, sent,
                   joinVars, srvVars, faults>>

\* try!(state.handles_tx.send(ReceiverMessage::Handle(..))) on the
\* sync_channel(0): a rendezvous with the receiver's next(), or SendError
\* when the receiver is gone.
RpcSendHandle(c) ==
    /\ pc[c] = "send_handle"
    /\ \/ /\ rcvPc = "recv"
          /\ rcvMsg' = HandleMsg(cur[c], cur[c])
          /\ rcvPc' = "handling"
          /\ pc' = [pc EXCEPT ![c] = "write"]
          /\ UNCHANGED <<lock, result, rxAlive>>
       \/ /\ Terminated(rcvPc)
          /\ result' = [result EXCEPT ![cur[c]] = Outcome("sender", 0)]
          /\ rxAlive' = rxAlive \ {cur[c]}
          /\ lock' = 0
          /\ pc' = [pc EXCEPT ![c] = "idle"]
          /\ UNCHANGED <<rcvMsg, rcvPc>>
    /\ UNCHANGED <<acceptVars, wire, handler, next_id, poisoned, cur, chan, ready_handles, rdVars,
                   c2s, s2c, sent, joinVars, srvVars, faults>>

\* try!(serde_json::to_writer(&mut state.stream, &packet)): the first bytes
\* of the request are written.
RpcWriteBegin(c) ==
    /\ pc[c] = "write"
    /\ wire' = Append(wire, Piece(Message(cur[c], 0), 1))
    /\ pc' = [pc EXCEPT ![c] = "writing"]
    /\ UNCHANGED <<acceptVars, handler, next_id, lock, poisoned, cur, result, rxAlive,
                   rcvVars, rdVars, c2s, s2c, sent, joinVars, srvVars, faults>>

\* The rest of the request is written: the packet is complete on the wire.
RpcWrite(c) ==
    /\ pc[c] = "writing"
    /\ wire' = Append(wire, Piece(Message(cur[c], 0), 2))
    /\ c2s' = Append(c2s, Message(cur[c], 0))
    /\ sent' = Append(sent, Message(cur[c], 0))
    /\ pc' = [pc EXCEPT ![c] = "wait"]
    /\ UNCHANGED <<acceptVars, handler, next_id, lock, poisoned, cur, result, rxAlive,
                   rcvVars, rdVars, s2c, joinVars, srvVars, faults>>

\* The same write failing, before any byte or after the first part (the
\* wire then carries bytes that are no packet): try! returns Err(Io),
\* dropping rx and the guard.
RpcWriteFail(c) ==
    /\ pc[c] \in {"write", "writing"}
    /\ c2s' = IF pc[c] = "writing" THEN Append(c2s, Garbage) ELSE c2s
    /\ faults < MaxFaults
    /\ faults' = faults + 1
    /\ result' = [result EXCEPT ![cur[c]] = Outcome("io", 0)]
    /\ rxAlive' = rxAlive \ {cur[c]}
    /\ lock' = 0
    /\ pc' = [pc EXCEPT ![c] = "idle"]
    /\ UNCHANGED <<acceptVars, wire, handler, next_id, poisoned, cur, rcvVars, rdVars, s2c,
                   sent, joinVars, srvVars>>

\* Ok(rx.recv().unwrap()): a payload, or a panic once every Sender is gone.
RpcRecv(c) ==
    /\ pc[c] = "wait"
    /\ IF chan[cur[c]] # <<>>
       THEN /\ result' = [result EXCEPT ![cur[c]] = Outcome("ok", Head(chan[cur[c]]))]
            /\ chan' = [chan EXCEPT ![cur[c]] = Tail(@)]
            /\ pc' = [pc EXCEPT ![c] = "idle"]
            /\ UNCHANGED poisoned
       ELSE /\ ~SenderAlive(cur[c])
            /\ result' = [result EXCEPT ![cur[c]] = Outcome("panic", 0)]
            /\ pc' = [pc EXCEPT ![c] = "panicked"]
            /\ poisoned' = TRUE
            /\ UNCHANGED chan
    /\ rxAlive' = rxAlive \ {cur[c]}
    /\ lock' = 0
    /\ UNCHANGED <<acceptVars, wire, handler, next_id, cur, rcvPc, rcvMsg, ready_handles, rdVars,
                   c2s, s2c, sent, joinVars, srvVars, faults>>

----------------------------------------------------------------------------
(* fn receiver, lines 129-145.                                             *)

\* ready_handles.remove(&id): the Handle stored under the reply's id.
LookupHandle(m, id) == m[id]

\* One iteration of `for message in messages` on the message in hand.
ReceiverHandle ==
    /\ rcvPc = "handling"
    /\ rcvMsg' = NoMsg
    /\ CASE rcvMsg.kind = "Handle" ->
              /\ ready_handles' = MapInsert(ready_handles, rcvMsg.id, rcvMsg.sender)
              /\ rcvPc' = "recv"
              /\ UNCHANGED chan
         [] rcvMsg.kind = "Packet" /\ rcvMsg.pkt.type = "Shutdown" ->
              \* break; Ok(()): the map and its Senders are dropped
              /\ ready_handles' = EmptyMap
              /\ rcvPc' = "ok"
              /\ UNCHANGED chan
         [] rcvMsg.kind = "Packet" /\ rcvMsg.pkt.type = "Message" ->
              IF rcvMsg.pkt.id \notin DOMAIN ready_handles
              THEN \* remove(&id).unwrap() on None: the thread panics
                   /\ ready_handles' = EmptyMap
                   /\ rcvPc' = "panicked"
                   /\ UNCHANGED chan
              ELSE LET to == LookupHandle(ready_handles, rcvMsg.pkt.id) IN
                   IF to \in rxAlive
                   THEN /\ chan' = [chan EXCEPT ![to] = Append(@, rcvMsg.pkt.body)]
                        /\ ready_handles' = MapRemove(ready_handles, rcvMsg.pkt.id)
                        /\ rcvPc' = "recv"
                   ELSE \* try!(handle.sender.send(..)) fails: Err(Sender)
                        /\ ready_handles' = EmptyMap
                        /\ rcvPc' = "err"
                        /\ UNCHANGED chan
         [] OTHER ->
              \* ReceiverMessage::Shutdown => break
              /\ ready_handles' = EmptyMap
              /\ rcvPc' = "ok"
              /\ UNCHANGED chan
    /\ UNCHANGED <<acceptVars, wire, handler, clientVars, rdVars, c2s, s2c, sent, joinVars,
                   srvVars, faults>>

\* The iterator ends when every SyncSender (the Client's and the reader's)
\* has been dropped.
ReceiverDisconnected ==
    /\ rcvPc = "recv"
    /\ ClientDropped
    /\ Terminated(rdPc)
    /\ rcvPc' = "ok"
    /\ ready_handles' = EmptyMap
    /\ UNCHANGED <<acceptVars, wire, handler, clientVars, rcvMsg, chan, rdVars, c2s, s2c, sent,
                   joinVars, srvVars, faults>>

----------------------------------------------------------------------------
(* fn reader, lines 147-164.                                               *)

\* An end of input handled like any other decode error: panic!.
ReaderAtEofPanics == "panicked"
\* Err(SyntaxError(EOFWhileParsingValue, _, _)) => break: the reader returns.
ReaderAtEof == "exited"

\* Packet::deserialize(&mut de) on the bytes that have arrived.
ReaderDecode ==
    /\ rdPc = "read"
    /\ IF s2c # <<>>
       THEN /\ s2c' = Tail(s2c)
            /\ IF Head(s2c).type = "Garbage"
               THEN \* Err(err) => panic!
                    /\ rdPc' = "panicked"
                    /\ rdErr' = "decode"
                    /\ UNCHANGED <<rdPkt, received>>
               ELSE /\ rdPc' = "sending"
                    /\ rdPkt' = Head(s2c)
                    /\ received' = Append(received, Head(s2c))
                    /\ UNCHANGED rdErr
       ELSE \* Err(SyntaxError(EOFWhileParsingValue, ..)) => break
            /\ ClientReadEof
            /\ rdPc' = ReaderAtEof
            /\ UNCHANGED <<s2c, rdPkt, rdErr, received>>
    /\ UNCHANGED <<acceptVars, wire, handler, clientVars, rcvVars, c2s, sent, joinVars, srvVars,
                   faults>>

\* tx.send(ReceiverMessage::Packet(packet)).unwrap(): a rendezvous with the
\* receiver, or a panic when the receiver is gone.
ReaderSend ==
    /\ rdPc = "sending"
    /\ \/ /\ rcvPc = "recv"
          /\ rcvMsg' = PacketMsg(rdPkt)
          /\ rcvPc' = "handling"
          /\ rdPc' = "read"
          /\ UNCHANGED rdErr
       \/ /\ Terminated(rcvPc)
          /\ rdPc' = "panicked"
          /\ rdErr' = "send"
          /\ UNCHANGED <<rcvMsg, rcvPc>>
    /\ UNCHANGED <<acceptVars, wire, handler, clientVars, ready_handles, chan, rdPkt, received,
                   c2s, s2c, sent, joinVars, srvVars, faults>>

\* set_read_timeout(50 ms) (line 189): a read with nothing to read fails
\* with an io::Error, which is not EOFWhileParsingValue: panic! (line 161).
ReaderTimeout ==
    /\ rdPc = "read"
    /\ s2c = <<>>
    /\ ~ClientReadEof
    /\ rdPc' = "panicked"
    /\ rdErr' = "io"
    /\ UNCHANGED <<acceptVars, wire, handler, clientVars, rcvVars, rdPkt, received, c2s, s2c,
                   sent, joinVars, srvVars, faults>>

----------------------------------------------------------------------------
(* Client::join, lines 218-225.  join takes the Client by value, so no rpc *)
(* is in progress on it.                                                   *)

NoCallInProgress == \A c \in Callers : pc[c] \in {"idle", "panicked"}

\* lock().unwrap(); to_writer(Shutdown); stream.shutdown(Both), all succeeding
\* (or the lock being poisoned: unwrap panics).
JoinStart ==
    /\ joinPc = "none"
    /\ NoCallInProgress
    /\ LockFree(lock)
    /\ IF poisoned
       THEN /\ joinPc' = "panicked"
            /\ UNCHANGED <<lock, c2s, sent, wire, clientShut>>
       ELSE /\ lock' = 0 - 1
            /\ wire' = wire \o <<Piece(Shutdown, 1), Piece(Shutdown, 2)>>
            /\ c2s' = Append(c2s, Shutdown)
            /\ sent' = Append(sent, Shutdown)
            /\ clientShut' = TRUE
            /\ joinPc' = "joining"
    /\ UNCHANGED <<acceptVars, handler, next_id, poisoned, pc, cur, result, rxAlive,
                   rcvVars, rdVars, s2c, joinedReader, srvVars, faults>>

\* try!(to_writer(Shutdown)) fails (wrote = FALSE), or the packet is written
\* and try!(stream.shutdown(Both)) fails (wrote = TRUE): join returns Err.
JoinFail ==
    /\ joinPc = "none"
    /\ NoCallInProgress
    /\ LockFree(lock)
    /\ ~poisoned
    /\ faults < MaxFaults
    /\ faults' = faults + 1
    /\ \E wrote \in BOOLEAN :
          IF wrote
          THEN /\ wire' = wire \o <<Piece(Shutdown, 1), Piece(Shutdown, 2)>>
               /\ c2s' = Append(c2s, Shutdown)
               /\ sent' = Append(sent, Shutdown)
          ELSE UNCHANGED <<c2s, sent, wire>>
    /\ joinPc' = "err"
    /\ UNCHANGED <<acceptVars, handler, clientVars, rcvVars, rdVars, s2c, joinedReader,
                   clientShut, srvVars>>

\* self.reader_guard.join().unwrap(); Ok(())
JoinReader ==
    /\ joinPc = "joining"
    /\ Terminated(rdPc)
    /\ joinedReader' = TRUE
    /\ lock' = 0
    /\ IF rdPc = "exited"
       THEN /\ joinPc' = "ok"
            /\ UNCHANGED poisoned
       ELSE /\ joinPc' = "panicked"
            /\ poisoned' = TRUE
    /\ UNCHANGED <<acceptVars, wire, handler, next_id, pc, cur, result, rxAlive, rcvVars, rdVars,
                   c2s, s2c, sent, clientShut, srvVars, faults>>

----------------------------------------------------------------------------
(* handle_conn, lines 65-86, with the handlers of mod test.                *)

\* A reply that does not echo the request's id.
ReplyIdZero(id) == 0
\* Packet::Message(id, reply): the reply carries the request's id.
ReplyId(id) == id

\* try!(Packet::deserialize(&mut de)) and the match on the packet.
ServerRead ==
    /\ srvPc = "read"
    /\ IF c2s # <<>>
       THEN /\ c2s' = Tail(c2s)
            /\ IF Head(c2s).type = "Garbage"
               THEN \* a request cut short: once more bytes or the end of
                    \* input follow, deserialize fails and try! returns
                    /\ Len(c2s) > 1 \/ ServerReadEof
                    /\ srvPc' = "err"
                    /\ srvEnd' = "decode"
                    /\ UNCHANGED srvId
               ELSE IF Head(c2s).type = "Shutdown"
               THEN \* Packet::Shutdown => break; Ok(())
                    /\ srvPc' = "ok"
                    /\ srvEnd' = "shutdown"
                    /\ UNCHANGED srvId
               ELSE /\ srvPc' = "serve"
                    /\ srvId' = Head(c2s).id
                    /\ UNCHANGED srvEnd
       ELSE \* end of input: deserialize fails and try! returns the Err
            /\ ServerReadEof
            /\ srvPc' = "err"
            /\ srvEnd' = "eof"
            /\ UNCHANGED <<c2s, srvId>>
    /\ UNCHANGED <<acceptVars, wire, handler, clientVars, rcvVars, rdVars, s2c, sent, joinVars,
                   srvReply, counter, arrived, served, replied, faults>>

\* The reply taken after the increment instead of before it.
ServeReplyAfter(count) == count + 1
\* let reply = Reply::Increment(*counter), taken before *counter += 1.
ServeReply(count) == count

\* f.serve(&message): Server::serve (lines 263-268), behind
\* BarrierServer::serve's barrier.wait() (lines 302-306) when handler > 0.
ServerServe ==
    /\ srvPc = "serve"
    /\ served' = Append(served, srvId)
    /\ IF handler = 0 \/ arrived + 1 >= handler
       THEN /\ srvReply' = ServeReply(counter)
            /\ counter' = counter + 1
            /\ arrived' = 0
            /\ srvPc' = "write"
       ELSE /\ arrived' = arrived + 1
            /\ srvPc' = "barrier"
            /\ UNCHANGED <<srvReply, counter>>
    /\ UNCHANGED <<acceptVars, wire, handler, clientVars, rcvVars, rdVars, c2s, s2c, sent,
                   joinVars, srvId, srvEnd, replied, faults>>

\* The handler's failure swallowed: the loop goes on to the next request.
ServeErrContinues == "read"
\* try!(f.serve(&message)) on Err: handle_conn returns the Err.
ServeErr == "err"

\* f.serve returns Err: try! returns it from handle_conn.
ServerServeFail ==
    /\ srvPc = "serve"
    /\ faults < MaxFaults
    /\ faults' = faults + 1
    /\ served' = Append(served, srvId)
    /\ srvPc' = ServeErr
    /\ srvEnd' = "handler"
    /\ UNCHANGED <<acceptVars, wire, handler, clientVars, rcvVars, rdVars, c2s, s2c, sent,
                   joinVars, srvId, srvReply, counter, arrived, replied>>

\* try!(serde_json::to_writer(&mut stream, &reply_packet)), succeeding.
ServerWrite ==
    /\ srvPc = "write"
    /\ s2c' = Append(s2c, Message(ReplyId(srvId), srvReply))
    /\ replied' = Append(replied, Message(ReplyId(srvId), srvReply))
    /\ srvPc' = "read"
    /\ UNCHANGED <<acceptVars, wire, handler, clientVars, rcvVars, rdVars, c2s, sent, joinVars,
                   srvId, srvReply, srvEnd, counter, arrived, served, faults>>

\* The same write failing.
ServerWriteFail ==
    /\ srvPc = "write"
    /\ faults < MaxFaults
    /\ faults' = faults + 1
    /\ srvPc' = "err"
    /\ srvEnd' = "io"
    /\ UNCHANGED <<acceptVars, wire, handler, clientVars, rcvVars, rdVars, c2s, s2c, sent,
                   joinVars, srvId, srvReply, counter, arrived, served, replied>>

----------------------------------------------------------------------------
(* The peer as the client's code sees it through its TcpStream.            *)

\* The server side of the connection is closed forcibly, without Shutdown.
PeerVanish ==
    /\ ~Terminated(srvPc)
    /\ joinPc = "none"
    /\ faults < MaxFaults
    /\ faults' = faults + 1
    /\ srvPc' = "closed"
    /\ UNCHANGED <<acceptVars, wire, handler, clientVars, rcvVars, rdVars, c2s, s2c, sent,
                   joinVars, srvId, srvReply, srvEnd, counter, arrived, served,
                   replied>>

\* Bytes reach the read half that handle_conn did not write: a reply with
\* any id and body, a Shutdown packet, or no packet encoding at all.
InjectedPackets ==
    {Message(i, b) : i \in Ids, b \in Ids} \cup {Shutdown, Garbage}

PeerInject ==
    /\ ~ClientReadEof
    /\ faults < MaxFaults
    /\ faults' = faults + 1
    /\ \E p \in InjectedPackets : s2c' = Append(s2c, p)
    /\ UNCHANGED <<acceptVars, wire, handler, clientVars, rcvVars, rdVars, c2s, sent, joinVars,
                   srvVars>>

----------------------------------------------------------------------------
CallerNext(c) ==
    \/ RpcLock(c)
    \/ RpcSendHandle(c)
    \/ RpcWriteBegin(c)
    \/ RpcWrite(c)
    \/ RpcRecv(c)
ReceiverNext == ReceiverHandle \/ ReceiverDisconnected
ReaderNext == ReaderDecode \/ ReaderSend
JoinNext == JoinStart \/ JoinReader
ServerNext == ServerRead \/ ServerServe \/ ServerWrite

\* The steps of the program's own threads.
NextProg ==
    \/ \E c \in Callers : CallerNext(c)
    \/ ReceiverNext
    \/ ReaderNext
    \/ JoinNext
    \/ ServerNext

\* The steps of the environment.
NextEnv ==
    \/ \E c \in Callers : RpcWriteFail(c)
    \/ ReaderTimeout
    \/ JoinFail
    \/ ServerServeFail
    \/ ServerWriteFail
    \/ PeerVanish
    \/ PeerInject

Next == NextProg \/ NextEnv

\* Every thread that can take a step eventually takes one.
Fairness ==
    /\ \A c \in Callers : WF_vars(CallerNext(c))
    /\ WF_vars(ReceiverNext)
    /\ WF_vars(ReaderNext)
    /\ WF_vars(JoinNext)
    /\ WF_vars(ServerNext)

Spec == Init /\ [][Next]_vars

\* The program with fair scheduling, in an environment that may fail.
FairSpec == Init /\ [][Next]_vars /\ Fairness

\* The program with fair scheduling, a healthy transport and no timeouts.
TestSpec == Init /\ [][NextProg]_vars /\ Fairness

----------------------------------------------------------------------------
(* fn serve, lines 88-106: the accept loop and the threads it spawns.      *)

otherVars == <<wire, handler, clientVars, rcvVars, rdVars, c2s, s2c, sent, joinVars,
               srvVars, faults>>

\* What a spawned thread's ending does to the accept loop: handle_conn's Err
\* is printed (lines 100-102), a panic unwinds the spawned thread only.
LoopAfterWorkerStops(loop, outcome) ==
    IF outcome = "ok" THEN loop ELSE "returned"
LoopAfterWorker(loop, outcome) == loop

\* Ok(c) => c; thread::spawn(move || handle_conn(conn, f)) for the next
\* connection the listener yields.
Accept(k) ==
    /\ acceptPc = "accepting"
    /\ workers[k] = "none"
    /\ \A j \in Conns : j < k => workers[j] # "none"
    /\ workers' = [workers EXCEPT ![k] = "running"]
    /\ UNCHANGED <<acceptPc, acceptRet, listenerErr, otherVars>>

\* Err(err) => return convert::From::from(err)
AcceptFail ==
    /\ acceptPc = "accepting"
    /\ listenerErr' = TRUE
    /\ acceptPc' = "returned"
    /\ acceptRet' = "io"
    /\ UNCHANGED <<workers, otherVars>>

\* The spawned closure ends: handle_conn returned Ok(()), returned an Err,
\* or panicked (a panic in f.serve).
WorkerEnd(k) ==
    /\ workers[k] = "running"
    /\ \E outcome \in {"ok", "err", "panicked"} :
          /\ workers' = [workers EXCEPT ![k] = outcome]
          /\ acceptPc' = LoopAfterWorker(acceptPc, outcome)
    /\ UNCHANGED <<acceptRet, listenerErr, otherVars>>

ServeNext ==
    \/ \E k \in Conns : Accept(k)
    \/ AcceptFail
    \/ \E k \in Conns : WorkerEnd(k)

\* The accept loop with its workers, each worker ending in any of the ways
\* handle_conn can end.
ServeSpec == Init /\ [][ServeNext]_vars

----------------------------------------------------------------------------
(* Properties.                                                             *)

\* The positions in the reader's history of the Message packets carrying id.
ReceivedAt(id) ==
    {i \in DOMAIN received : received[i].type = "Message" /\ received[i].id = id}

\* The positions of the packets equal to Message(id, body).
ReceivedExactly(id, body) ==
    {i \in DOMAIN received : received[i] = Message(id, body)}

Min(S) == CHOOSE x \in S : \A y \in S : x <= y

\* C1 as stated: every call that returned Ok(r) has exactly one packet
\* Message(id, r), id being the call's own id, in what the read half received.
C1_ExactlyOneReceived ==
    \A id \in Ids :
        result[id].kind = "ok" =>
            Cardinality(ReceivedExactly(id, result[id].val)) = 1

\* C1 as amended: a call that returned Ok(r) was handed the payload of the
\* first packet received under its own id (at least one such packet was
\* received, and later ones are never delivered); a payload waiting in a
\* call's channel is likewise that of the first packet received under the
\* call's id; and no call is handed more than one payload.
C1_FirstReceivedDelivered ==
    \A id \in Ids :
        /\ Len(chan[id]) <= 1
        /\ result[id].kind = "ok" =>
              /\ chan[id] = <<>>
              /\ ReceivedAt(id) # {}
              /\ received[Min(ReceivedAt(id))].body = result[id].val
        /\ chan[id] # <<>> =>
              /\ ReceivedAt(id) # {}
              /\ received[Min(ReceivedAt(id))].body = chan[id][1]

\* A call returned its reply although the read half received a second
\* packet under the call's id.
C1_Witness ==
    \E id \in Ids :
        /\ result[id].kind = "ok"
        /\ Cardinality(ReceivedAt(id)) >= 2

\* C2 as stated: no caller thread holds the client lock while it is blocked
\* on its reply notifier.
C2_LockNotHeldWhileWaiting ==
    \A c \in Callers : pc[c] = "wait" => lock # c

\* C3 as stated: with the barrier handler for NCallers participants, every
\* call issued on the one client eventually returns its reply.
C3_EveryCallReturns ==
    \A c \in Callers :
        (handler = NCallers /\ pc[c] = "wait")
            ~> (pc[c] = "idle" /\ result[cur[c]].kind = "ok")

\* handle_conn has passed the request of caller c's current call to f.serve.
RequestServed(c) == \E i \in DOMAIN served : served[i] = cur[c]

\* C4 as stated: when the peer closes the stream without a Shutdown packet
\* while a call is outstanding (its request reached the peer, its reply did
\* not come) and the reader is running, the caller eventually returns from
\* rpc: it neither hangs nor panics.
C4_CallersReturnAfterPeerClose ==
    \A c \in Callers :
        (srvPc = "closed" /\ pc[c] = "wait" /\ RequestServed(c) /\ rdErr = "none")
            ~> (pc[c] = "idle")

\* The receiver finishes matching a reply whose id has no registered waiter.
UnknownReplyStep ==
    /\ rcvPc = "handling"
    /\ rcvMsg.kind = "Packet"
    /\ rcvMsg.pkt.type = "Message"
    /\ rcvMsg.pkt.id \notin DOMAIN ready_handles
    /\ rcvPc' # "handling"

\* C5 as stated: a reply for an id with no registered waiter leaves every
\* other waiter registered.
C5_UnknownReplyKeepsWaiters ==
    [][UnknownReplyStep => ready_handles' = ready_handles]_vars

\* C6 as stated: after the reader hit bytes that are no packet encoding, no
\* caller stays blocked for ever.
C6_CallersUnblockAfterGarbage ==
    \A c \in Callers :
        (rdErr = "decode" /\ pc[c] = "wait") ~> (pc[c] # "wait")

\* The ids of the packets of a sequence, in order.
IdsOf(seq) == [i \in DOMAIN seq |-> seq[i].id]

\* The Message packets of a sequence, in order.
RECURSIVE MessagesOf(_)
MessagesOf(seq) ==
    IF seq = <<>> THEN <<>>
    ELSE IF Head(seq).type = "Message"
         THEN <<Head(seq)>> \o MessagesOf(Tail(seq))
         ELSE MessagesOf(Tail(seq))

\* handle_conn has decoded the Shutdown packet that join wrote.
ShutdownConsumed ==
    /\ \E i \in DOMAIN sent : sent[i] = Shutdown
    /\ \A i \in DOMAIN c2s : c2s[i] # Shutdown

\* C7: once handle_conn has decoded the client's Shutdown packet it has
\* returned Ok, and by then it has written one reply for every request the
\* client sent before the Shutdown, with the request's id, in request order.
C7_ShutdownAfterAllReplies ==
    ShutdownConsumed =>
        /\ srvPc = "ok"
        /\ sent[Len(sent)] = Shutdown
        /\ IdsOf(replied) = IdsOf(MessagesOf(sent))

\* The handler returned on Shutdown after two requests.
C7_Witness ==
    /\ ShutdownConsumed
    /\ srvPc = "ok"
    /\ Len(replied) >= 2

\* C8: when join runs on a client that issued no call, join returns Ok and
\* the reader and the receiver both return without error or panic.
C8_IdleClientShutsDownCleanly ==
    (joinPc = "joining" /\ next_id = 0)
        ~> (joinPc = "ok" /\ rdPc = "exited" /\ rcvPc = "ok" /\ ~poisoned)

\* A client that issued no call has been joined and its threads are gone.
C8_Witness ==
    /\ next_id = 0
    /\ joinPc = "ok"
    /\ joinedReader
    /\ rdPc = "exited"
    /\ rcvPc = "ok"

\* C9 as stated: handle_conn meeting end of input before any byte of a new
\* packet returns success.
C9_EofIsCleanTermination ==
    srvEnd = "eof" => srvPc = "ok"

\* C10: with a healthy transport and the counter handler, the call that was
\* allocated id i (the (i+1)-th call) returns Increment(i), and at the step
\* it returns the server's counter is i + 1.
C10_SequentialCallsCount ==
    [][\A c \in Callers :
          (pc[c] = "wait" /\ pc'[c] # "wait") =>
              /\ result'[cur[c]] = Outcome("ok", cur[c])
              /\ counter = cur[c] + 1]_vars

\* A second call has returned its reply.
C10_Witness ==
    \E i \in Ids : i > 0 /\ result[i].kind = "ok"

\* The thread of connection k stops running in this step.
WorkerStops(k) == workers[k] = "running" /\ workers'[k] # "running"

C12_FailedJoinJoinsReader ==
    joinPc = "err" => joinedReader

\* C13 as stated: a caller waiting when the receiver has left its loop on a
\* Shutdown packet (its waiter dropped) comes out of the wait by returning
\* from rpc, not by panicking.
C13_DroppedWaiterReturnsFailure ==
    [][\A c \in Callers :
          (pc[c] = "wait" /\ rcvPc = "ok" /\ pc'[c] # "wait") =>
              pc'[c] = "idle"]_vars

\* C15 as stated: a read that times out while no bytes are arriving leaves
\* the reader running.
C15_TimeoutKeepsReaderRunning ==
    rdErr = "io" => ~Terminated(rdPc)

\* Every packet that reached the read half was written by handle_conn: the
\* peer replies only to requests it has seen, once each.
WellBehavedPeer == received \o s2c = replied

\* The receiver is matching on a reply packet.
MatchingReply ==
    /\ rcvPc = "handling"
    /\ rcvMsg.kind = "Packet"
    /\ rcvMsg.pkt.type = "Message"

\* C14: the Handle of a request has left the caller (the receiver took it
\* from the rendezvous channel) before the request is on the wire, and a
\* reply from a peer that replies only to requests it has seen finds its
\* waiter in ready_handles when the receiver matches on it.
C14_ReplyFindsWaiter ==
    /\ \A i \in DOMAIN sent :
          sent[i].type = "Message" =>
              ~\E c \in Callers : pc[c] = "send_handle" /\ cur[c] = sent[i].id
    /\ (WellBehavedPeer /\ MatchingReply) =>
          rcvMsg.pkt.id \in DOMAIN ready_handles

\* The receiver matches on the peer's reply to a second call and its waiter
\* is registered.
C14_Witness ==
    /\ WellBehavedPeer
    /\ MatchingReply
    /\ rcvMsg.pkt.id > 0
    /\ rcvMsg.pkt.id \in DOMAIN ready_handles

\* The first part of a request packet at position i of the wire.
RequestHead(i) == wire[i].type = "Message" /\ wire[i].part = 1

\* C19: packets do not interleave on the write half: the second part of a
\* packet (a request or join's Shutdown) directly follows its own first
\* part, a first part is followed by something else only when its write
\* failed, and requests appear in increasing id order.
C19_RequestsDoNotInterleave ==
    /\ \A i \in DOMAIN wire :
          /\ wire[i].part = 2 =>
                i > 1 /\ wire[i - 1] = [wire[i] EXCEPT !.part = 1]
          /\ (wire[i].part = 1 /\ i < Len(wire)) =>
                \/ wire[i + 1] = [wire[i] EXCEPT !.part = 2]
                \/ RequestHead(i) /\ result[wire[i].id].kind = "io"
    /\ \A i, j \in DOMAIN wire :
          (i < j /\ RequestHead(i) /\ RequestHead(j)) => wire[i].id < wire[j].id

\* Two callers have each written a whole request while the other was in a
\* call of its own, and join wrote its Shutdown after them.
C19_Witness ==
    /\ cur[1] # cur[2]
    /\ \A c \in Callers : Piece(Message(cur[c], 0), 2) \in {wire[i] : i \in DOMAIN wire}
    /\ wire[Len(wire)] = Piece(Shutdown, 2)

\* The ids that were written to the wire in Message request packets.
SentIds == {sent[i].id : i \in {j \in DOMAIN sent : sent[j].type = "Message"}}

\* The receiver has handed a reply for id to the waiter's channel.
Delivered(id) == chan[id] # <<>> \/ result[id].kind = "ok"

\* The receiver has taken the Handle of id from its channel and not yet
\* inserted it.
HandleInHand(id) ==
    rcvPc = "handling" /\ rcvMsg.kind = "Handle" /\ rcvMsg.id = id

\* C16 as stated: at any moment the registered ids are exactly the ids sent
\* in Message packets and not yet replied to.
C16_MapEqualsOutstanding ==
    DOMAIN ready_handles = {id \in SentIds : ~Delivered(id)}

\* C16, amended: while the receiver runs, every id sent in a Message packet
\* whose reply was not yet delivered is registered or is in the Handle the
\* receiver holds and is about to insert; every registered id was allocated
\* and its reply was not delivered.
C16_OutstandingAreRegistered ==
    /\ ~Terminated(rcvPc) =>
          \A id \in SentIds :
              ~Delivered(id) => id \in DOMAIN ready_handles \/ HandleInHand(id)
    /\ \A id \in DOMAIN ready_handles : id < next_id /\ ~Delivered(id)

\* A request is on the wire, its reply is outstanding and its Handle is
\* registered, after an earlier call's reply was delivered and its
\* registration removed.
C16_Witness ==
    /\ ~Terminated(rcvPc)
    /\ \E id \in SentIds :
          /\ id > 0
          /\ ~Delivered(id)
          /\ id \in DOMAIN ready_handles
          /\ result[0].kind = "ok"
          /\ 0 \notin DOMAIN ready_handles

\* The call that allocated id returned Err(Io) or Err(Sender).
ReturnedFailure(id) == result[id].kind \in {"io", "sender"}

\* C17: a call that returned a failure has no registration left in the
\* receiver's map: its id is not a key of ready_handles.
C17_FailedCallNotRegistered ==
    \A id \in Ids : ReturnedFailure(id) => id \notin DOMAIN ready_handles

\* Caller c enters a call in this step: it has the Mutex and allocates an id.
Allocates(c) == pc[c] = "idle" /\ pc'[c] = "send_handle"

\* C18: the first call allocates id 0 and every later call, successful or
\* failed and whichever thread makes it, allocates the previous id plus 1:
\* next_id starts at 0, a step that enters a call takes the current next_id
\* and moves it on by one, nothing else changes next_id, and the calls in
\* progress hold pairwise different ids below next_id.
C18_IdsCountUpFromZero ==
    /\ next_id = 0
    /\ [][/\ \A c \in Callers :
                Allocates(c) => cur'[c] = next_id /\ next_id' = next_id + 1
          /\ next_id' # next_id => \E c \in Callers : Allocates(c)
          /\ \A c, d \in Callers :
                (c # d /\ pc'[c] # "idle" /\ pc'[d] # "idle"
                   /\ pc'[c] # "panicked" /\ pc'[d] # "panicked")
                   => cur'[c] # cur'[d]
          /\ \A c \in Callers : pc'[c] # "idle" => cur'[c] < next_id']_vars

\* A second call by another thread allocated id 1 after the call that
\* allocated id 0 returned a failure.
C18_Witness ==
    /\ next_id = 2
    /\ ReturnedFailure(0)
    /\ \E c \in Callers : cur[c] = 1 /\ pc[c] = "wait"
    /\ \E c \in Callers : cur[c] = 0 /\ pc[c] = "idle"

\* s is an initial segment of t.
IsPrefix(s, t) == Len(s) <= Len(t) /\ \A i \in DOMAIN s : s[i] = t[i]

\* The ids of the request packets the client wrote, in order.
RequestIds == IdsOf(MessagesOf(sent))

\* How many Message packets handle_conn has decoded so far.
DecodedCount == Len(MessagesOf(sent)) - Len(MessagesOf(c2s))

====
